---- MODULE Spec2Model ----
(***************************************************************************)
(* A model of the dorc_client Python SDK (sdk/python/src/dorc_client):     *)
(* the DorcClient facade, its retrying transport (_retry_get / _get), the  *)
(* response decoder (_raise_for_status and the pydantic models), the       *)
(* health probe, wait_for_completion and the request mapper of validate.   *)
(*                                                                         *)
(* Python strings whose content the code inspects (strip, truthiness,      *)
(* regular expression) are sequences of one-character strings.  Optional   *)
(* values (None or a string) are records [some, val].                      *)
(***************************************************************************)
EXTENDS Integers, Sequences, FiniteSets, TLC

\* ------------------------------------------------------------------ bounds
MaxStrLen == 2
MaxTime == 3

\* ----------------------------------------------------------------- strings
RECURSIVE StringsUpTo(_, _)
StringsUpTo(cs, n) ==
    IF n = 0 THEN {<< >>}
    ELSE LET S == StringsUpTo(cs, n - 1)
         IN  S \cup {Append(s, c) : s \in S, c \in cs}

None == [some |-> FALSE, val |-> << >>]

Some(v) == [some |-> TRUE, val |-> v]

Opt(S) == {None} \cup {Some(v) : v \in S}

\* Python truthiness of an Optional[str]: None and "" are falsy.
Truthy(o) == o.some /\ o.val # << >>

\* Python `a or b` on Optional[str].
PyOr(a, b) == IF Truthy(a) THEN a ELSE b

IsSpace(c) == c = " "

RECURSIVE LStrip(_)
LStrip(s) ==
    IF s = << >> THEN s
    ELSE IF IsSpace(Head(s)) THEN LStrip(Tail(s)) ELSE s

RECURSIVE RStrip(_)
RStrip(s) ==
    IF s = << >> THEN s
    ELSE IF IsSpace(s[Len(s)]) THEN RStrip(SubSeq(s, 1, Len(s) - 1)) ELSE s

\* str.strip()
Strip(s) == RStrip(LStrip(s))

\* ------------------------------------------------------------ slug pattern
SlugChars == {"a", "-"}

\* The pattern's length bound, scaled to the strings of the model.
TenantSlugMaxLen == 1

\* TENANT_SLUG_REGEX: lowercase alphanumerics and hyphens, bounded length.
TenantReFullmatch(s) ==
    /\ Len(s) >= 1
    /\ Len(s) <= TenantSlugMaxLen
    /\ \A i \in 1..Len(s) : s[i] \in SlugChars

\* ----------------------------------------------------------- configuration
Config(mode, jwt_token, tenant_slug, api_key) ==
    [mode |-> mode, jwt_token |-> jwt_token,
     tenant_slug |-> tenant_slug, api_key |-> api_key]

\* ----------------------------------------------------------------- headers
NoHeaders == [authorization |-> None, x_api_key |-> None]

Bearer(token) == <<"Bearer ">> \o token

\* A header set that carries the key as a bearer credential too.
ApiKeyHeadersWithBearer(api_key) ==
    IF ~Truthy(api_key) THEN NoHeaders
    ELSE [authorization |-> Some(Bearer(api_key.val)),
          x_api_key |-> Some(api_key.val)]

\* auth.api_key_headers
api_key_headers(api_key) ==
    IF ~Truthy(api_key) THEN NoHeaders
    ELSE [NoHeaders EXCEPT !.x_api_key = Some(api_key.val)]

\* auth.bearer_headers: a missing token is an authentication failure raised
\* before any request is sent; otherwise Authorization: Bearer <token>.
bearer_headers(token) ==
    IF ~token.some
    THEN [raised |-> TRUE, headers |-> NoHeaders]
    ELSE [raised |-> FALSE,
          headers |-> [NoHeaders EXCEPT !.authorization = Some(Bearer(token.val))]]

\* A resolution that prefers the configured token to the provider's.
AuthHeadersStaticFirst(config, has_provider, provided) ==
    IF config.mode = "mcp"
    THEN LET token0 == IF has_provider THEN provided ELSE None
             t1 == Strip(PyOr(PyOr(config.jwt_token, token0), Some(<< >>)).val)
             token == IF t1 = << >> THEN None ELSE Some(t1)
         IN  bearer_headers(token)
    ELSE [raised |-> FALSE, headers |-> api_key_headers(config.api_key)]

\* DorcClient._auth_headers; `provided` is what the token provider returns
\* on this call (unused when the client has no provider).
AuthHeaders(config, has_provider, provided) ==
    IF config.mode = "mcp"
    THEN LET token0 == IF has_provider THEN provided ELSE None
             t1 == Strip(PyOr(PyOr(token0, config.jwt_token), Some(<< >>)).val)
             token == IF t1 = << >> THEN None ELSE Some(t1)
         IN  bearer_headers(token)
    ELSE [raised |-> FALSE, headers |-> api_key_headers(config.api_key)]

\* ------------------------------------------------------- server responses
Absent == "<absent>"

NoneStr == "<None>"

JField(v) == {Absent, "", v}

BlankBody ==
    [fmt |-> "text", err |-> "absent", code |-> Absent, message |-> Absent,
     request_id |-> Absent, pipeline_status |-> Absent, required |-> FALSE]

\* Bodies of error responses: not JSON, JSON that is no object, an object
\* without "error", "error" that is no object, and the contract envelope
\* {"error": {"code", "message", "request_id"}} with each field absent, empty
\* or set.
ErrorBodies ==
    {BlankBody,
     [BlankBody EXCEPT !.fmt = "json_list"],
     [BlankBody EXCEPT !.fmt = "json_dict", !.err = "string"]}
    \cup
    {[BlankBody EXCEPT !.fmt = "json_dict", !.err = "dict", !.code = c,
                       !.message = m, !.request_id = r] :
        c \in JField("NOT_FOUND"), m \in JField("run not found"),
        r \in JField("req-1")}

\* Bodies of run-state / chunk / validate responses: an object whose
\* pipeline_status is absent or one of the engine's values, with the other
\* required fields of the schema present or not.
RunBodies ==
    {[BlankBody EXCEPT !.fmt = "json_dict", !.pipeline_status = p, !.required = q] :
        p \in {Absent, "COMPLETE", "ERROR", "RUNNING"}, q \in BOOLEAN}

Bodies == ErrorBodies \cup RunBodies

Statuses == {200, 401, 403, 404, 429, 500, 502, 503, 504}

\* httpx exceptions by the base class the client tests for; ProtocolError
\* stands for the httpx.HTTPError subclasses that are neither.
TransportExcs == {"TimeoutException", "NetworkError", "ProtocolError"}

Response(status, body) ==
    [kind |-> "response", status_code |-> status, body |-> body, exc |-> ""]

TransportExc(e) ==
    [kind |-> "exception", status_code |-> 0, body |-> BlankBody, exc |-> e]

NoOutcome == [kind |-> "none", status_code |-> 0, body |-> BlankBody, exc |-> ""]

\* The attempt failed in _auth_headers: no request left the client.
Unsent == [kind |-> "unsent", status_code |-> 0, body |-> BlankBody, exc |-> ""]

FullEnvelope ==
    [BlankBody EXCEPT !.fmt = "json_dict", !.err = "dict", !.code = "NOT_FOUND",
                      !.message = "run not found", !.request_id = "req-1"]

\* The bodies the server sends with a status: every error body with 401 and
\* 404, two of them with the other error statuses, and with 200 the run
\* bodies and two bodies that are no object.
BodiesOf(status) ==
    IF status = 200
    THEN RunBodies \cup {BlankBody, [BlankBody EXCEPT !.fmt = "json_list"]}
    ELSE IF status \in {401, 404} THEN ErrorBodies
    ELSE {BlankBody, FullEnvelope}

Outcomes ==
    {Response(s, b) : s \in Statuses, b \in Bodies}
    \cup {TransportExc(e) : e \in TransportExcs}

\* What the transport may do with one request.
ServerOutcomes ==
    {o \in Outcomes : o.kind = "response" => o.body \in BodiesOf(o.status_code)}

Is2xx(status) == 200 <= status /\ status < 300

\* ------------------------------------------------------------------ errors
\* What a call hands back to its caller: a returned value or a raised
\* exception with the fields the exception carries.
NoResult ==
    [kind |-> "none", type |-> "", status_code |-> 0, code |-> "",
     message |-> "", request_id |-> NoneStr, response_text |-> BlankBody,
     value |-> "", flag |-> FALSE]

Return(type, value, flag) ==
    [NoResult EXCEPT !.kind = "return", !.type = type, !.value = value,
                     !.flag = flag]

\* An exception that carries no HTTP fields (httpx, pydantic, ValueError,
\* TimeoutError, tenacity.RetryError); value is what its message names.
RaisePlain(type, value) ==
    [NoResult EXCEPT !.kind = "raise", !.type = type, !.value = value]

\* errors.DorcError(status_code, code=, message=, request_id=, response_text=)
DorcError(type, status, code, message, request_id, text) ==
    [NoResult EXCEPT !.kind = "raise", !.type = type, !.status_code = status,
                     !.code = code, !.message = message,
                     !.request_id = request_id, !.response_text = text]

\* errors.py: class DorcAuthError(DorcHttpError): an auth error is caught by
\* a handler for the HTTP error type too.
IsInstance(type, cls) ==
    \/ type = cls
    \/ type = "DorcAuthError" /\ cls = "DorcError"

\* bearer_headers(None): the missing credential, reported as a 401.
MissingTokenError ==
    DorcError("DorcAuthError", 401, "UNAUTHORIZED", "JWT token is required",
              NoneStr, BlankBody)

\* --------------------------------------------------- configuration resolution
RECURSIVE RStripSlash(_)
\* str.rstrip("/")
RStripSlash(s) ==
    IF s = << >> THEN s
    ELSE IF s[Len(s)] = "/" THEN RStripSlash(SubSeq(s, 1, Len(s) - 1)) ELSE s

\* (x or "").strip() or None
StripOrNone(o) ==
    LET s == Strip(PyOr(o, Some(<< >>)).val)
    IN  IF s = << >> THEN None ELSE Some(s)

\* The environment variables Config.from_env reads (os.getenv of each).
Environ(mcp_url, jwt, token, base_url, engine_url, tenant_slug, api_key) ==
    [DORC_MCP_URL |-> mcp_url, DORC_JWT |-> jwt, DORC_TOKEN |-> token,
     DORC_BASE_URL |-> base_url, DORC_ENGINE_URL |-> engine_url,
     DORC_TENANT_SLUG |-> tenant_slug, DORC_API_KEY |-> api_key]

\* The environment of a client that never called Config.from_env.
NoEnv == [read |-> FALSE, vars |-> Environ(None, None, None, None, None, None, None)]

\* No configuration: the client does not exist (yet, or construction failed).
NoConfig == Config("none", None, None, None)

\* What a construction path produces: a configuration with its base URL, or
\* the exception it raised.
Built(cfg, url) == [error |-> NoResult, config |-> cfg, base_url |-> url]

Refused(type, what) ==
    [error |-> RaisePlain(type, what), config |-> NoConfig, base_url |-> << >>]

\* A resolution that accepts an engine-direct environment without a tenant.
FromEnvTenantOptional(env) ==
    LET mcp_url == RStripSlash(Strip(PyOr(env.DORC_MCP_URL, Some(<< >>)).val))
        token == StripOrNone(PyOr(env.DORC_JWT, env.DORC_TOKEN))
        base_url == PyOr(env.DORC_BASE_URL, env.DORC_ENGINE_URL)
    IN  IF mcp_url # << >>
        THEN IF ~token.some
             THEN Refused("DorcConfigError", "DORC_JWT")
             ELSE Built(Config("mcp", token, None, None), mcp_url)
        ELSE IF ~Truthy(base_url)
        THEN Refused("DorcConfigError", "DORC_BASE_URL")
        ELSE Built(Config("engine", None, StripOrNone(env.DORC_TENANT_SLUG),
                          StripOrNone(env.DORC_API_KEY)),
                   RStripSlash(base_url.val))

\* Config.from_env
FromEnv(env) ==
    LET mcp_url == RStripSlash(Strip(PyOr(env.DORC_MCP_URL, Some(<< >>)).val))
        token == StripOrNone(PyOr(env.DORC_JWT, env.DORC_TOKEN))
        base_url == PyOr(env.DORC_BASE_URL, env.DORC_ENGINE_URL)
        tenant_slug == StripOrNone(env.DORC_TENANT_SLUG)
        api_key == StripOrNone(env.DORC_API_KEY)
    IN  IF mcp_url # << >>
        THEN IF ~token.some
             THEN Refused("DorcConfigError", "DORC_JWT")
             ELSE Built(Config("mcp", token, None, None), mcp_url)
        ELSE IF ~Truthy(base_url)
        THEN Refused("DorcConfigError", "DORC_BASE_URL")
        ELSE IF ~tenant_slug.some
        THEN Refused("DorcConfigError", "DORC_TENANT_SLUG")
        ELSE Built(Config("engine", None, tenant_slug, api_key),
                   RStripSlash(base_url.val))

\* The arguments of a construction path; `via` names the path: "config"
\* (DorcClient(config=...)), "init" (DorcClient(...) with keyword arguments,
\* or none), "for_mcp", "for_engine".
CtorArgs(via, base_url, tenant_slug, api_key, jwt_token, provider) ==
    [via |-> via, base_url |-> base_url, tenant_slug |-> tenant_slug,
     api_key |-> api_key, jwt_token |-> jwt_token, token_provider |-> provider]

\* DorcClient.__init__ without config=: the environment when no field is
\* given, engine-direct when tenant_slug is given, MCP otherwise.
InitConfig(c, env) ==
    IF ~c.base_url.some /\ ~c.tenant_slug.some /\ ~c.api_key.some
       /\ ~c.jwt_token.some
    THEN FromEnv(env)
    ELSE IF c.tenant_slug.some
    THEN Built(Config("engine", None, c.tenant_slug, c.api_key),
               RStripSlash(PyOr(c.base_url, Some(<< >>)).val))
    ELSE Built(Config("mcp", c.jwt_token, None, c.api_key),
               RStripSlash(PyOr(c.base_url, Some(<< >>)).val))

\* Whether DorcClient.__init__ calls Config.from_env.
ReadsEnv(c) ==
    /\ c.via = "init"
    /\ ~c.base_url.some /\ ~c.tenant_slug.some /\ ~c.api_key.some
    /\ ~c.jwt_token.some

\* DorcClient.for_mcp
ForMcp(c) ==
    IF (~c.jwt_token.some \/ Strip(c.jwt_token.val) = << >>) /\ ~c.token_provider
    THEN Refused("ValueError", "for_mcp requires jwt_token or token_provider")
    ELSE Built(Config("mcp",
                      IF Truthy(c.jwt_token) THEN Some(Strip(c.jwt_token.val))
                                             ELSE None,
                      None, None),
               RStripSlash(c.base_url.val))

\* DorcClient.for_engine
ForEngine(c) ==
    LET tenant_slug == Strip(c.tenant_slug.val)
    IN  IF ~TenantReFullmatch(tenant_slug)
        THEN Refused("ValueError", "invalid tenant_slug")
        ELSE Built(Config("engine", None, Some(tenant_slug), c.api_key),
                   RStripSlash(c.base_url.val))

\* ----------------------------------------------------------------- decoder
\* Python `x or default` on a JSON field: absent (None) and "" are falsy.
FieldOr(v, default) == IF v \in {Absent, ""} THEN default ELSE v

\* DorcClient._raise_for_status on a non-2xx response.
StatusError(resp) ==
    LET b == resp.body
        env == b.fmt = "json_dict" /\ b.err = "dict"
        code == IF env THEN FieldOr(b.code, "HTTP_ERROR") ELSE "HTTP_ERROR"
        message == IF env THEN FieldOr(b.message, "request failed")
                   ELSE "request failed"
        request_id == IF env THEN FieldOr(b.request_id, NoneStr) ELSE NoneStr
    IN  IF resp.status_code \in {401, 403}
        THEN DorcError("DorcAuthError", resp.status_code, code, message,
                       request_id, b)
        ELSE DorcError("DorcError", resp.status_code, code, message,
                       request_id, b)

\* models.PipelineStatus = Literal["COMPLETE", "ERROR"]
PipelineStatus == {"COMPLETE", "ERROR"}

\* A decoder that fills what it cannot read with defaults.
DecodeWithDefaults(schema, rid, body) ==
    IF body.fmt = "json_dict" /\ body.required
           /\ body.pipeline_status \in PipelineStatus
    THEN Return(schema, body.pipeline_status, FALSE)
    ELSE Return(schema, "", TRUE)

\* resp.json() followed by <Model>.model_validate for the response model of
\* `schema`: RunStateResponse and ValidateResponse require pipeline_status to
\* be a PipelineStatus; ChunkResultsResponse has no such field.
Decode(schema, rid, body) ==
    IF body.fmt = "text" THEN RaisePlain("JSONDecodeError", rid)
    ELSE IF body.fmt # "json_dict" \/ ~body.required
         THEN RaisePlain("ValidationError", rid)
    ELSE IF schema = "ChunkResultsResponse"
         THEN Return(schema, "chunks", FALSE)
    ELSE IF body.pipeline_status \in PipelineStatus
         THEN Return(schema, body.pipeline_status, FALSE)
    ELSE RaisePlain("ValidationError", rid)

\* ---------------------------------------------------------- retry policy
\* _is_transient_exc
IsTransientExc(exc) == exc \in {"TimeoutException", "NetworkError"}

\* A classification that retries every error status.
IsTransientResponseAnyError(status) == status >= 400

\* _is_transient_response
IsTransientResponse(status) == status \in {429, 500, 502, 503, 504}

\* stop_after_attempt(3)
StopAfterAttempt == 3

Min(a, b) == IF a < b THEN a ELSE b

Max(a, b) == IF a > b THEN a ELSE b

RECURSIVE Pow2(_)
Pow2(n) == IF n = 0 THEN 1 ELSE 2 * Pow2(n - 1)

\* A wait that does not grow.
WaitFixed(n) == 500

\* wait_exponential(multiplier=0.5, min=0.5, max=4), in milliseconds, after
\* attempt number n.
WaitExponential(n) == Max(500, Min(500 * Pow2(n - 1), 4000))

\* --------------------------------------------------------- one GET attempt
\* What one execution of the body of DorcClient._get hands to the retry
\* wrapper: a returned response or a raised exception.  `ah` is the result of
\* _auth_headers, `o` what the transport did with the request.
GetBody(ah, o) ==
    IF ah.raised
    THEN [returned |-> FALSE, resp |-> Unsent, error |-> MissingTokenError]
    ELSE IF o.kind = "exception"
    THEN [returned |-> FALSE, resp |-> o, error |-> RaisePlain(o.exc, "")]
    ELSE IF IsTransientResponse(o.status_code)
    THEN [returned |-> TRUE, resp |-> o, error |-> NoResult]
    ELSE IF ~Is2xx(o.status_code)
    THEN [returned |-> FALSE, resp |-> o, error |-> StatusError(o)]
    ELSE [returned |-> TRUE, resp |-> o, error |-> NoResult]

\* retry_if_exception(_is_transient_exc) | retry_if_result(_is_transient_response)
RetryIf(ar) ==
    \/ ~ar.returned /\ IsTransientExc(ar.error.type)
    \/ ar.returned /\ IsTransientResponse(ar.resp.status_code)

\* tenacity with reraise=True once stop_after_attempt is reached:
\* RetryError.reraise() raises the last attempt's exception when the attempt
\* raised, and the RetryError itself when the attempt returned a result.
GiveUp(ar) ==
    IF ~ar.returned THEN ar.error
    ELSE RaisePlain("RetryError", "")

\* A stop condition that is off by one.
RetryGetOffByOne(n, ar) ==
    IF RetryIf(ar)
    THEN IF n > StopAfterAttempt
         THEN [next |-> "raise", error |-> GiveUp(ar)]
         ELSE [next |-> "retry", error |-> NoResult]
    ELSE IF ar.returned
         THEN [next |-> "return", error |-> NoResult]
         ELSE [next |-> "raise", error |-> ar.error]

\* The retry wrapper's decision after attempt number n of the decorated
\* _get: retry (after sleeping), return the response, or raise.
RetryGet(n, ar) ==
    IF RetryIf(ar)
    THEN IF n >= StopAfterAttempt
         THEN [next |-> "raise", error |-> GiveUp(ar)]
         ELSE [next |-> "retry", error |-> NoResult]
    ELSE IF ar.returned
         THEN [next |-> "return", error |-> NoResult]
         ELSE [next |-> "raise", error |-> ar.error]

\* validate wrapped by the retry decorator of the reads.
RetryPostLikeGet(n, ar) == RetryGet(n, ar)

\* validate posts once: DorcClient.validate is not wrapped by _retry_get.
RetryPost(n, ar) ==
    IF ar.returned
    THEN [next |-> "return", error |-> NoResult]
    ELSE [next |-> "raise", error |-> ar.error]

\* ---------------------------------------------------------------- requests
EmptyDict == [k \in {} |-> None]

NoPayload == EmptyDict

Request(method, path, rid, headers, payload) ==
    [method |-> method, path |-> path, run_id |-> rid, headers |-> headers,
     payload |-> payload]

HealthPaths == <<"/healthz", "/health">>

RunIds == {"run-1", "run-404"}

ReadOps == {"get_run", "list_chunks", "wait_for_completion"}

ReadPath(o) == IF o = "list_chunks" THEN "/v1/runs/{run_id}/chunks"
               ELSE "/v1/runs/{run_id}"

ReadSchema(o) == IF o = "list_chunks" THEN "ChunkResultsResponse"
                 ELSE "RunStateResponse"

\* -------------------------------------------------------------------- time
\* Clock readings are in milliseconds; a request or a scheduling delay takes
\* none or one Tick.
Tick == 500

Elapsed == {0, Tick}

Timeouts == {0, Tick}

PollIntervals == {Tick}

Clock(t) == Min(t, MaxTime * Tick)

\* ----------------------------------------------------------------- teardown
\* How many explicit close() calls the caller makes at most.
MaxCloses == 2

\* A close that releases the pool every time it is called.
CloseReleasesAgain(c, r) ==
    [conn |-> "closed", released |-> r + 1, raised |-> FALSE]

\* DorcClient.close(): self._client.close().  httpx releases the transport
\* when the client is not closed yet and does nothing, and raises nothing,
\* when it is.
Close(c, r) ==
    IF c = "open"
    THEN [conn |-> "closed", released |-> r + 1, raised |-> FALSE]
    ELSE [conn |-> c, released |-> r, raised |-> FALSE]

\* DorcClient.__exit__(exc_type, exc_val, exc_tb): close(), then return
\* None, which is falsy, so the exception that ended the block goes on.
ExitBlock(c, r, exc) ==
    LET k == Close(c, r)
    IN  [conn |-> k.conn, released |-> k.released, raised |-> k.raised,
         escaped |-> exc]

\* ------------------------------------------------------------------ threads
\* The caller threads that share one client.
Threads == {1, 2}

\* A thread that is not inside a read call.
NoCall ==
    [pc |-> "idle", op |-> "none", attempts |-> 0, seen |-> << >>,
     result |-> NoResult]

\* ------------------------------------------------------------------- state
VARIABLES
    config,          \* DorcClient.config
    token_provider,  \* whether DorcClient._token_provider is set
    pc,              \* "idle", "get" (inside _get), "health", "done"
    op,              \* the public operation in progress or just finished
    run_id,          \* its run_id argument
    attempts,        \* HTTP attempts made by the current _get call
    polls,           \* get_run calls made by the current wait_for_completion
    last,            \* how the latest attempt at a request ended
    reqs,            \* the requests sent by the current operation
    slept,           \* the sleeps of the current operation, in milliseconds
    result,          \* what the operation handed back to its caller
    now,             \* time.time(), read by wait_for_completion
    deadline,        \* wait_for_completion's deadline
    poll_interval,   \* wait_for_completion's poll_interval_s
    warned,          \* whether validate emitted its DeprecationWarning
    only_running,    \* every poll of this wait was answered 200 RUNNING
    pending,         \* the payload validate built and has yet to post
    probes,          \* what each path of the current health() answered
    base_url,        \* DorcClient.config.base_url
    ctor,            \* the construction path taken and its arguments
    env,             \* the environment as Config.from_env read it, if it did
    args,            \* the arguments of the current validate call
    observed,        \* whether the caller recorded the DeprecationWarning
    provided_last,   \* what the token provider returned on the latest attempt
    conn,            \* DorcClient._client: "open" or "closed"
    released,        \* how many times the connection pool was released
    scope,           \* the with block: "outside", "inside" or "left"
    escaped,         \* the exception that left the with block, if any
    closes,          \* close() calls made so far, __exit__'s included
    close_raised,    \* whether a close() call raised
    threads          \* the read call each caller thread is making

vars == <<config, token_provider, pc, op, run_id, attempts, polls, last, reqs,
          slept, result, now, deadline, poll_interval, warned, only_running,
          pending, probes, base_url, ctor, env, args, observed, provided_last,
          conn, released, scope, escaped, closes, close_raised, threads>>

\* What construction fixes: the frozen Config, the provider, and the record
\* of how the client was built.
client == <<config, token_provider, base_url, ctor, env>>

\* The httpx.Client the facade owns and the with block around it.
lifecycle == <<conn, released, scope, escaped, closes, close_raised>>

\* ----------------------------------------------------------- request mapper
\* The arguments of DorcClient.validate (content_type and mode keep their
\* defaults).
ValidateArgs(cc, c, ct, t, cti, md, cx, opts, rq, cid) ==
    [candidate_content |-> cc, content |-> c, candidate_text |-> ct,
     title |-> t, candidate_title |-> cti, metadata |-> md, context |-> cx,
     options |-> opts, request_id |-> rq, candidate_id |-> cid]

\* No validate call in progress.
NoArgs == ValidateArgs(None, None, None, None, None, None, None, None, None, None)

\* A key k with value o.val, or nothing when o is None (exclude_none).
OptKey(k, o) == IF o.some THEN k :> o.val ELSE EmptyDict

\* Dictionary keys are tagged with their Python type ("s:" str, "i:" int).
IsStrKey(k) == k \in {"s:tags", "s:k"}

\* A label mapping that keeps the keys that are not strings.
ContextLabelsAllKeys(cx) == [k \in DOMAIN cx |-> [t |-> "str", v |-> cx[k].v]]

\* {k: str(v) for k, v in context.items() if isinstance(k, str)}; a value is
\* a record [t, v] whose v is its str().
ContextLabels(cx) ==
    [k \in {x \in DOMAIN cx : IsStrKey(x)} |-> [t |-> "str", v |-> cx[k].v]]

\* An adapter that maps the legacy arguments without the DeprecationWarning.
LegacyAdapterSilent(a) ==
    IF ~a.candidate_content.some /\ (a.content.some \/ a.candidate_text.some)
    THEN [warned |-> FALSE,
          candidate_content |-> PyOr(a.content, a.candidate_text),
          title |-> PyOr(a.title, a.candidate_title),
          metadata |-> IF ~a.metadata.some /\ a.context.some
                       THEN Some(ContextLabels(a.context.val))
                       ELSE a.metadata]
    ELSE [warned |-> FALSE, candidate_content |-> a.candidate_content,
          title |-> a.title, metadata |-> a.metadata]

\* The deprecation adapter at the head of validate.
LegacyAdapter(a) ==
    IF ~a.candidate_content.some /\ (a.content.some \/ a.candidate_text.some)
    THEN [warned |-> TRUE,
          candidate_content |-> PyOr(a.content, a.candidate_text),
          title |-> PyOr(a.title, a.candidate_title),
          metadata |-> IF ~a.metadata.some /\ a.context.some
                       THEN Some(ContextLabels(a.context.val))
                       ELSE a.metadata]
    ELSE [warned |-> FALSE, candidate_content |-> a.candidate_content,
          title |-> a.title, metadata |-> a.metadata]

\* models.ValidateOptions(**options).model_dump(): the declared fields with
\* their defaults, overridden and extended by the caller's keys.
OptionsDump(opts) ==
    (IF opts.some THEN opts.val ELSE EmptyDict)
    @@ ("mode" :> "audit" @@ "chunk_size_chars" :> 8000
        @@ "overlap_chars" :> 400 @@ "resume" :> TRUE)

\* ValidateRequest(request_id, mode, candidate=Candidate(...), options)
\* .model_dump(exclude_none=True)
RequestDump(m, a) ==
    OptKey("request_id", a.request_id)
    @@ "mode" :> "audit"
    @@ "candidate" :> ("content" :> m.candidate_content.val
                       @@ "content_type" :> "text/markdown"
                       @@ OptKey("title", m.title)
                       @@ OptKey("labels", m.metadata)
                       @@ OptKey("cce_id", a.candidate_id))
    @@ "options" :> OptionsDump(a.options)

ActorMarker == "subject" :> "sdk"

\* A tenancy rule that forgets the actor marker.
InjectTenancyNoActor(cfg, payload) ==
    IF cfg.mode = "engine"
    THEN [error |-> NoResult,
          payload |-> ("tenant_slug" :> Strip(PyOr(cfg.tenant_slug, Some(<< >>)).val))
                      @@ payload]
    ELSE [error |-> NoResult, payload |-> payload]

\* The tenancy rule of validate: engine mode embeds the stripped, re-checked
\* tenant slug and the actor marker; mcp mode embeds nothing.
InjectTenancy(cfg, payload) ==
    IF cfg.mode = "engine"
    THEN LET tenant == Strip(PyOr(cfg.tenant_slug, Some(<< >>)).val)
         IN  IF tenant = << >>
             THEN [error |-> RaisePlain("ValueError", "tenant_slug required"),
                   payload |-> NoPayload]
             ELSE IF ~TenantReFullmatch(tenant)
             THEN [error |-> RaisePlain("ValueError", "invalid tenant_slug"),
                   payload |-> NoPayload]
             ELSE [error |-> NoResult,
                   payload |-> ("tenant_slug" :> tenant @@ "actor" :> ActorMarker)
                               @@ payload]
    ELSE [error |-> NoResult, payload |-> payload]

\* A validate that builds its payload without looking at the content.
BuildPayloadUnchecked(cfg, a) ==
    LET m == LegacyAdapter(a)
        t == InjectTenancy(cfg, RequestDump(m, a))
    IN  [error |-> t.error, payload |-> t.payload, warned |-> m.warned]

\* validate up to, not including, the POST: the local error or the payload.
BuildPayload(cfg, a) ==
    LET m == LegacyAdapter(a)
    IN  IF ~m.candidate_content.some \/ Strip(m.candidate_content.val) = << >>
        THEN [error |-> RaisePlain("ValueError", "candidate_content required"),
              payload |-> NoPayload, warned |-> m.warned]
        ELSE LET t == InjectTenancy(cfg, RequestDump(m, a))
             IN  [error |-> t.error, payload |-> t.payload, warned |-> m.warned]

\* ------------------------------------------------------------------ inputs
TenantChars == {"a", "-", "A", " "}

\* Clients of the transport specification: both modes, every shape of
\* credential.
ClientConfigs ==
    {Config("engine", None, Some(<<"a">>), k) :
        k \in {None, Some(<< >>), Some(<<"k">>)}}
    \cup
    {Config("mcp", t, None, None) :
        t \in {None, Some(<<" ">>), Some(<<"t">>)}}

\* Clients of the mapper specification: every tenant slug up to MaxStrLen.
MapperConfigs ==
    {Config("engine", None, t, Some(<<"k">>)) :
        t \in Opt(StringsUpTo(TenantChars, MaxStrLen))}
    \cup {Config("mcp", Some(<<"t">>), None, None)}

\* What a token provider may return.
ProviderResults == {Some(<< >>), Some(<<" ">>), Some(<<"p">>), Some(<<" ", "p">>)}

ContentInputs == Opt({<< >>, <<" ">>, <<"x">>, <<"y">>})

StrV(v) == [t |-> "str", v |-> v]

IntV(v) == [t |-> "int", v |-> v]

MetadataInputs == {None, Some("s:k" :> StrV("v"))}

ContextInputs == {None, Some("s:tags" :> IntV("7") @@ "i:1" :> StrV("w"))}

OptionsInputs == {None, Some("resume" :> FALSE @@ "x_extra" :> "e")}

\* The calls of the mapper specification: every shape of content, with and
\* without labels, context, options and a request id.
AllValidateArgs ==
    {ValidateArgs(cc, c, ct, None, None, md, cx, opts, rq, None) :
        cc \in ContentInputs, c \in Opt({<< >>, <<" ">>, <<"x">>}),
        ct \in Opt({<<"y">>}),
        md \in MetadataInputs, cx \in ContextInputs, opts \in OptionsInputs,
        rq \in Opt({<<"r">>})}

\* The calls of the adapter specification: every mix of new-style and
\* legacy arguments, empty strings included.
AdapterValidateArgs ==
    {ValidateArgs(cc, c, ct, t, cti, md, cx, None, None, cid) :
        cc \in Opt({<< >>, <<"x">>}), c \in Opt({<< >>, <<" ">>, <<"x">>}),
        ct \in Opt({<< >>, <<"y">>}),
        t \in Opt({<< >>, <<"T">>}), cti \in Opt({<< >>, <<"L">>}),
        md \in MetadataInputs, cx \in ContextInputs,
        cid \in Opt({<<"c">>})}

\* Clients of the adapter specification: one of each mode.
AdapterConfigs ==
    {Config("engine", None, Some(<<"a">>), Some(<<"k">>)),
     Config("mcp", Some(<<"t">>), None, None)}

\* The environments Config.from_env may find.
Envs ==
    {Environ(m, j, t, b, e, ts, k) :
        m \in Opt({<<" ">>, <<"m">>}), j \in Opt({<<" ">>, <<"j">>}),
        t \in Opt({<<"k">>}), b \in Opt({<< >>, <<"b", "/">>}),
        e \in Opt({<<"e">>}),
        ts \in Opt({<<" ">>, <<"a">>, <<"A">>}),
        k \in Opt({<<" ">>, <<"k">>})}

\* Tenant slugs handed to a constructor: one that matches the pattern, and
\* ones that are padded, empty, uppercase, too long, or contain a space.
TenantInputs ==
    {<<"a">>, <<" ", "a">>, << >>, <<"A">>, <<"a", "a">>, <<"a", " ", "a">>}

TokenInputs == {<<" ">>, <<"t">>, <<" ", "t">>}

\* DorcClient(...) with keyword arguments, or with none.
InitCalls ==
    {CtorArgs("init", b, ts, k, j, tp) :
        b \in Opt({<<"u">>}), ts \in Opt(TenantInputs), k \in Opt({<<"k">>}),
        j \in Opt(TokenInputs), tp \in BOOLEAN}

\* DorcClient.for_mcp(base_url, jwt_token=, token_provider=)
ForMcpCalls ==
    {CtorArgs("for_mcp", Some(<<"u", "/">>), None, None, j, tp) :
        j \in Opt(TokenInputs \cup {<< >>}), tp \in BOOLEAN}

\* DorcClient.for_engine(base_url, api_key=, tenant_slug=)
ForEngineCalls ==
    {CtorArgs("for_engine", Some(<<"u">>), Some(ts), Some(k), None, FALSE) :
        ts \in TenantInputs, k \in {<< >>, <<"k">>}}

BasicValidateArgs ==
    {ValidateArgs(cc, c, None, None, None, None, None, None, None, None) :
        cc \in {None, Some(<<"x">>)}, c \in {None, Some(<<"x">>)}}

\* ----------------------------------------------------------------- actions
TypeOK ==
    /\ pc \in {"new", "failed", "idle", "get", "post", "health", "done"}
    /\ attempts \in 0..StopAfterAttempt
    /\ token_provider \in BOOLEAN
    /\ warned \in BOOLEAN

InitWith(configs) ==
    /\ config \in configs
    /\ token_provider \in (IF config.mode = "mcp" THEN BOOLEAN ELSE {FALSE})
    /\ pc = "idle"
    /\ op = "none"
    /\ run_id = ""
    /\ attempts = 0
    /\ polls = 0
    /\ last = NoOutcome
    /\ reqs = << >>
    /\ slept = << >>
    /\ result = NoResult
    /\ now = 0
    /\ deadline = 0
    /\ poll_interval = 0
    /\ warned = FALSE
    /\ only_running = TRUE
    /\ pending = NoPayload
    /\ probes = << >>
    /\ base_url = <<"u">>
    /\ ctor = CtorArgs("config", None, None, None, None, token_provider)
    /\ env = NoEnv
    /\ args = NoArgs
    /\ observed = FALSE
    /\ provided_last = None
    /\ conn = "open"
    /\ released = 0
    /\ scope = "outside"
    /\ escaped = NoResult
    /\ closes = 0
    /\ close_raised = FALSE
    /\ threads = [t \in Threads |-> NoCall]

Init == InitWith(ClientConfigs)

InitMapper == InitWith(MapperConfigs)

InitAdapter == InitWith(AdapterConfigs)

\* No client yet: the program is about to construct one.
InitConfig0 ==
    /\ config = NoConfig
    /\ token_provider = FALSE
    /\ pc = "new"
    /\ op = "none"
    /\ run_id = ""
    /\ attempts = 0
    /\ polls = 0
    /\ last = NoOutcome
    /\ reqs = << >>
    /\ slept = << >>
    /\ result = NoResult
    /\ now = 0
    /\ deadline = 0
    /\ poll_interval = 0
    /\ warned = FALSE
    /\ only_running = TRUE
    /\ pending = NoPayload
    /\ probes = << >>
    /\ base_url = << >>
    /\ ctor = CtorArgs("none", None, None, None, None, FALSE)
    /\ env = NoEnv
    /\ args = NoArgs
    /\ observed = FALSE
    /\ provided_last = None
    /\ conn = "open"
    /\ released = 0
    /\ scope = "outside"
    /\ escaped = NoResult
    /\ closes = 0
    /\ close_raised = FALSE
    /\ threads = [t \in Threads |-> NoCall]

\* The end of a construction path: the client holds the configuration, or
\* the exception reaches the caller and there is no client.
Install(c, r, e) ==
    /\ pc = "new"
    /\ ctor' = c
    /\ env' = e
    /\ IF r.error.kind = "raise"
       THEN /\ pc' = "failed"
            /\ result' = r.error
            /\ UNCHANGED <<config, base_url, token_provider>>
       ELSE /\ pc' = "idle"
            /\ config' = r.config
            /\ base_url' = r.base_url
            /\ token_provider' = c.token_provider
            /\ UNCHANGED result
    /\ UNCHANGED <<op, run_id, attempts, polls, last, reqs, slept, now, deadline,
                   poll_interval, warned, only_running, pending, probes, args,
                   observed, provided_last, lifecycle, threads>>

\* DorcClient(...): `e` is the environment of the process, read only when
\* no field is given.
New(c, e) ==
    /\ c.via = "init"
    /\ Install(c, InitConfig(c, e),
               IF ReadsEnv(c) THEN [read |-> TRUE, vars |-> e] ELSE NoEnv)

NewForMcp(c) ==
    /\ c.via = "for_mcp"
    /\ Install(c, ForMcp(c), NoEnv)

NewForEngine(c) ==
    /\ c.via = "for_engine"
    /\ Install(c, ForEngine(c), NoEnv)

\* The caller takes the result; the client is ready for its next call.
Finish ==
    /\ pc = "done"
    /\ pc' = "idle"
    /\ op' = "none"
    /\ run_id' = ""
    /\ attempts' = 0
    /\ polls' = 0
    /\ last' = NoOutcome
    /\ reqs' = << >>
    /\ slept' = << >>
    /\ result' = NoResult
    /\ now' = 0
    /\ deadline' = 0
    /\ poll_interval' = 0
    /\ warned' = FALSE
    /\ only_running' = TRUE
    /\ pending' = NoPayload
    /\ probes' = << >>
    /\ args' = NoArgs
    /\ observed' = FALSE
    /\ provided_last' = None
    /\ UNCHANGED <<client, lifecycle, threads>>

\* get_run(run_id) / list_chunks(run_id): enter the decorated _get.
CallRead(o, rid) ==
    /\ pc = "idle"
    /\ o \in {"get_run", "list_chunks"}
    /\ pc' = "get"
    /\ op' = o
    /\ run_id' = rid
    /\ polls' = 1
    /\ UNCHANGED <<client, lifecycle, threads,
                   attempts, last, reqs, slept, result, now, deadline,
                   poll_interval, warned, only_running, pending, probes,
                   args, observed, provided_last>>

\* wait_for_completion(run_id, poll_interval_s=, timeout_s=): compute the
\* deadline and enter the first get_run.
CallWait(rid, interval, timeout) ==
    /\ pc = "idle"
    /\ pc' = "get"
    /\ op' = "wait_for_completion"
    /\ run_id' = rid
    /\ polls' = 1
    /\ deadline' = now + timeout
    /\ poll_interval' = interval
    /\ UNCHANGED <<client, lifecycle, threads,
                   attempts, last, reqs, slept, result, now, warned,
                   only_running, pending, probes, args, observed,
                   provided_last>>

IsRunningAnswer(o) ==
    /\ o.kind = "response"
    /\ o.status_code = 200
    /\ o.body.fmt = "json_dict"
    /\ o.body.required
    /\ o.body.pipeline_status = "RUNNING"

\* A loop that only a completed run ends.
OnlyCompleteEnds(status) == status = "COMPLETE"

\* str(r.pipeline_status).upper() != "RUNNING"
NotRunning(status) == status \notin {"RUNNING", "running"}

\* A loop that tests the deadline before the status.
WaitDecisionDeadlineFirst(status, t, dl) ==
    IF t >= dl THEN "timeout"
    ELSE IF NotRunning(status) THEN "return"
    ELSE "sleep"

\* One iteration of the loop of wait_for_completion after get_run returned
\* a run state: the status test, then the deadline test, then the sleep.
WaitDecision(status, t, dl) ==
    IF NotRunning(status) THEN "return"
    ELSE IF t >= dl THEN "timeout"
    ELSE "sleep"

\* One execution of _get under the retry wrapper, and what follows it in
\* get_run / list_chunks / wait_for_completion when the wrapper is done.
\* `o` is what the transport does with the request, `provided` what the
\* token provider returns, `dt` the time the request takes.
ReadAttempt(o, provided, dt) ==
    /\ pc = "get"
    /\ LET ah == AuthHeaders(config, token_provider, provided)
           ar == GetBody(ah, o)
           n == attempts + 1
           d == RetryGet(n, ar)
           waiting == op = "wait_for_completion"
           t1 == IF waiting /\ ~ah.raised THEN Clock(now + dt) ELSE now
           dec == Decode(ReadSchema(op), run_id, o.body)
       IN
       /\ IF ah.raised
          THEN /\ last' = Unsent
               /\ UNCHANGED <<attempts, reqs, only_running>>
          ELSE /\ last' = o
               /\ reqs' = Append(reqs, Request("GET", ReadPath(op), run_id,
                                               ah.headers, NoPayload))
               /\ only_running' = (only_running /\ IsRunningAnswer(o))
               /\ attempts' = IF d.next = "return" /\ waiting
                                 /\ dec.kind = "return"
                                 /\ WaitDecision(dec.value, t1, deadline) = "sleep"
                              THEN 0 ELSE n
       /\ CASE d.next = "retry" ->
                 /\ slept' = Append(slept, WaitExponential(n))
                 /\ now' = IF waiting THEN Clock(t1 + WaitExponential(n)) ELSE now
                 /\ UNCHANGED <<pc, result, polls>>
            [] d.next = "raise" ->
                 /\ result' = d.error
                 /\ pc' = "done"
                 /\ now' = t1
                 /\ UNCHANGED <<slept, polls>>
            [] d.next = "return" /\ (~waiting \/ dec.kind = "raise") ->
                 /\ result' = dec
                 /\ pc' = "done"
                 /\ now' = t1
                 /\ UNCHANGED <<slept, polls>>
            [] d.next = "return" /\ waiting /\ dec.kind = "return" ->
                 IF WaitDecision(dec.value, t1, deadline) = "return"
                 THEN /\ result' = dec
                      /\ pc' = "done"
                      /\ now' = t1
                      /\ UNCHANGED <<slept, polls>>
                 ELSE IF WaitDecision(dec.value, t1, deadline) = "timeout"
                 THEN /\ result' = RaisePlain("TimeoutError", run_id)
                      /\ pc' = "done"
                      /\ now' = t1
                      /\ UNCHANGED <<slept, polls>>
                 ELSE /\ slept' = Append(slept, poll_interval)
                      /\ now' = Clock(t1 + poll_interval)
                      /\ polls' = polls + 1
                      /\ UNCHANGED <<pc, result>>
    /\ provided_last' = IF config.mode = "mcp" THEN provided ELSE None
    /\ UNCHANGED <<client, lifecycle, threads,
                   op, run_id, deadline, poll_interval, warned, pending,
                   probes, args, observed>>

\* validate(...), up to the POST: the deprecation adapter, the local checks
\* and the payload.  A local failure ends the call with no request sent.
\* `recording` is whether the caller's warning filters let the
\* DeprecationWarning through to be seen.
CallValidate(a, recording) ==
    /\ pc = "idle"
    /\ LET b == BuildPayload(config, a)
       IN  /\ warned' = b.warned
           /\ observed' = (b.warned /\ recording)
           /\ IF b.error.kind = "raise"
              THEN /\ result' = b.error
                   /\ pc' = "done"
                   /\ UNCHANGED pending
              ELSE /\ pc' = "post"
                   /\ pending' = b.payload
                   /\ UNCHANGED result
    /\ op' = "validate"
    /\ args' = a
    /\ UNCHANGED <<client, lifecycle, threads,
                   run_id, attempts, polls, last, reqs, slept, now,
                   deadline, poll_interval, only_running, probes,
                   provided_last>>

\* The POST of validate with _raise_for_status: what the statements after
\* the payload hand on, a returned 2xx response or a raised exception.
PostBody(ah, o) ==
    IF ah.raised
    THEN [returned |-> FALSE, resp |-> Unsent, error |-> MissingTokenError]
    ELSE IF o.kind = "exception"
    THEN [returned |-> FALSE, resp |-> o, error |-> RaisePlain(o.exc, "")]
    ELSE IF ~Is2xx(o.status_code)
    THEN [returned |-> FALSE, resp |-> o, error |-> StatusError(o)]
    ELSE [returned |-> TRUE, resp |-> o, error |-> NoResult]

\* The rest of validate: _auth_headers, the POST, _raise_for_status and the
\* decoding of the answer.
ValidatePost(o, provided) ==
    /\ pc = "post"
    /\ LET ah == AuthHeaders(config, token_provider, provided)
           ar == PostBody(ah, o)
           n == attempts + 1
           d == RetryPost(n, ar)
       IN  /\ IF ah.raised
              THEN /\ last' = Unsent
                   /\ UNCHANGED <<attempts, reqs>>
              ELSE /\ reqs' = Append(reqs, Request("POST", "/v1/validate", "",
                                                   ah.headers, pending))
                   /\ attempts' = n
                   /\ last' = o
           /\ CASE d.next = "retry" -> UNCHANGED <<pc, result>>
                [] d.next = "raise" -> /\ result' = d.error
                                       /\ pc' = "done"
                [] d.next = "return" ->
                       /\ result' = Decode("ValidateResponse", "", o.body)
                       /\ pc' = "done"
    /\ provided_last' = IF config.mode = "mcp" THEN provided ELSE None
    /\ UNCHANGED <<client, lifecycle, threads,
                   op, run_id, polls, slept, now, deadline,
                   poll_interval, warned, only_running, pending, probes,
                   args, observed>>

\* health() / healthz(): enter the loop over the two paths.
CallHealth ==
    /\ pc = "idle"
    /\ pc' = "health"
    /\ op' = "health"
    /\ UNCHANGED <<client, lifecycle, threads,
                   run_id, attempts, polls, last, reqs, slept, result,
                   now, deadline, poll_interval, warned, only_running, pending,
                   probes, args, observed, provided_last>>

\* A probe that takes any answer for a healthy one.
HealthOkAnyAnswer(o) == o.kind = "response"

\* A probe that never takes an answer for a healthy one.
HealthOkNever(o) == FALSE

\* if 200 <= r.status_code < 300 on what the GET of a path did.
HealthOk(o) == o.kind = "response" /\ Is2xx(o.status_code)

\* One iteration of the loop of health(): the GET of the next path inside
\* try/except httpx.HTTPError; after the last path, return False.
HealthProbe(o, provided) ==
    /\ pc = "health"
    /\ LET ah == AuthHeaders(config, token_provider, provided)
           n == attempts + 1
       IN  IF ah.raised
           THEN /\ result' = MissingTokenError
                /\ pc' = "done"
                /\ last' = Unsent
                /\ UNCHANGED <<attempts, reqs, probes>>
           ELSE /\ reqs' = Append(reqs, Request("GET", HealthPaths[n], "",
                                                ah.headers, NoPayload))
                /\ probes' = Append(probes, [o EXCEPT !.body = BlankBody])
                /\ attempts' = n
                /\ last' = o
                /\ IF HealthOk(o)
                   THEN /\ result' = Return("bool", "", TRUE)
                        /\ pc' = "done"
                   ELSE IF n >= Len(HealthPaths)
                   THEN /\ result' = Return("bool", "", FALSE)
                        /\ pc' = "done"
                   ELSE UNCHANGED <<pc, result>>
    /\ provided_last' = IF config.mode = "mcp" THEN provided ELSE None
    /\ UNCHANGED <<client, lifecycle, threads,
                   op, run_id, polls, slept, now, deadline,
                   poll_interval, warned, only_running, pending, args,
                   observed>>

\* An attempt counter kept on the client and shared by its calls.
AttemptNumberShared(th, t) ==
    1 + th[1].attempts + th[2].attempts

\* The attempt number the retry wrapper works with: _retry_get keeps its
\* state per invocation of the decorated _get, so a call counts its own
\* attempts only.
AttemptNumber(th, t) == th[t].attempts + 1

\* A thread calls get_run(run_id) / list_chunks(run_id) on the shared client.
ThreadCall(t, o) ==
    /\ threads[t].pc = "idle"
    /\ o \in {"get_run", "list_chunks"}
    /\ threads' = [threads EXCEPT ![t] = [NoCall EXCEPT !.pc = "get", !.op = o]]
    /\ UNCHANGED <<client, lifecycle, pc, op, run_id, attempts, polls, last,
                   reqs, slept, result, now, deadline, poll_interval, warned,
                   only_running, pending, probes, args, observed,
                   provided_last>>

\* One attempt of the call of thread t: the body of _get, the decision of
\* the retry wrapper, and the decoding of get_run / list_chunks when the
\* wrapper is done.
ThreadAttempt(t, o, provided) ==
    /\ threads[t].pc = "get"
    /\ LET me == threads[t]
           ah == AuthHeaders(config, token_provider, provided)
           ar == GetBody(ah, o)
           n == AttemptNumber(threads, t)
           d == RetryGet(n, ar)
           dec == Decode(ReadSchema(me.op), "run-1", o.body)
       IN  threads' = [threads EXCEPT ![t] =
               [pc |-> IF d.next = "retry" THEN "get" ELSE "done",
                op |-> me.op,
                attempts |-> me.attempts + 1,
                seen |-> Append(me.seen, IF ah.raised THEN Unsent ELSE o),
                result |-> CASE d.next = "retry" -> NoResult
                             [] d.next = "raise" -> d.error
                             [] d.next = "return" -> dec]]
    /\ UNCHANGED <<client, lifecycle, pc, op, run_id, attempts, polls, last,
                   reqs, slept, result, now, deadline, poll_interval, warned,
                   only_running, pending, probes, args, observed,
                   provided_last>>

\* The thread takes the result of its call.
ThreadFinish(t) ==
    /\ threads[t].pc = "done"
    /\ threads' = [threads EXCEPT ![t] = NoCall]
    /\ UNCHANGED <<client, lifecycle, pc, op, run_id, attempts, polls, last,
                   reqs, slept, result, now, deadline, poll_interval, warned,
                   only_running, pending, probes, args, observed,
                   provided_last>>

\* with DorcClient(...) as c: __enter__ returns the client itself.
Enter ==
    /\ pc = "idle"
    /\ scope = "outside"
    /\ conn = "open"
    /\ scope' = "inside"
    /\ UNCHANGED <<client, threads, conn, released, escaped, closes,
                   close_raised, pc, op, run_id, attempts, polls, last, reqs,
                   slept, result, now, deadline, poll_interval, warned,
                   only_running, pending, probes, args, observed,
                   provided_last>>

\* The with block ends, normally or with the exception the last operation
\* raised: __exit__ runs.
Leave ==
    /\ scope = "inside"
    /\ pc \in {"idle", "done"}
    /\ LET exc == IF pc = "done" /\ result.kind = "raise"
                  THEN result ELSE NoResult
           x == ExitBlock(conn, released, exc)
       IN  /\ conn' = x.conn
           /\ released' = x.released
           /\ close_raised' = (close_raised \/ x.raised)
           /\ escaped' = x.escaped
    /\ scope' = "left"
    /\ closes' = closes + 1
    /\ UNCHANGED <<client, threads, pc, op, run_id, attempts, polls, last,
                   reqs, slept, result, now, deadline, poll_interval, warned,
                   only_running, pending, probes, args, observed,
                   provided_last>>

\* An explicit close() between two operations.
CallClose ==
    /\ pc = "idle"
    /\ closes < MaxCloses
    /\ LET k == Close(conn, released)
       IN  /\ conn' = k.conn
           /\ released' = k.released
           /\ close_raised' = (close_raised \/ k.raised)
    /\ closes' = closes + 1
    /\ UNCHANGED <<client, threads, scope, escaped, pc, op, run_id, attempts,
                   polls, last, reqs, slept, result, now, deadline,
                   poll_interval, warned, only_running, pending, probes, args,
                   observed, provided_last>>

\* ----------------------------------------------------------- specifications
\* The token provider is consulted only by a client that has one, and only
\* wait_for_completion reads the clock.
Provided == IF token_provider THEN ProviderResults ELSE {None}

Durations == IF op = "wait_for_completion" THEN Elapsed ELSE {0}

Next ==
    \/ \E o \in {"get_run", "list_chunks"}, rid \in RunIds : CallRead(o, rid)
    \/ \E rid \in RunIds, i \in PollIntervals, t \in Timeouts : CallWait(rid, i, t)
    \/ \E o \in ServerOutcomes, p \in Provided, dt \in Durations :
           ReadAttempt(o, p, dt)
    \/ \E a \in BasicValidateArgs, rec \in BOOLEAN : CallValidate(a, rec)
    \/ \E o \in ServerOutcomes, p \in Provided : ValidatePost(o, p)
    \/ CallHealth
    \/ \E o \in ServerOutcomes, p \in Provided : HealthProbe(o, p)
    \/ Finish

Spec == Init /\ [][Next]_vars

\* The mapper specification: validate alone, every argument combination,
\* every tenant slug, three answers of the server.
MapperOutcomes ==
    {Response(200, [BlankBody EXCEPT !.fmt = "json_dict", !.required = TRUE,
                                     !.pipeline_status = "COMPLETE"]),
     Response(503, FullEnvelope),
     TransportExc("TimeoutException")}

NextMapper ==
    \/ \E a \in AllValidateArgs, rec \in BOOLEAN : CallValidate(a, rec)
    \/ \E o \in MapperOutcomes, p \in Provided : ValidatePost(o, p)
    \/ Finish

SpecMapper == InitMapper /\ [][NextMapper]_vars

\* The adapter specification: validate alone, every mix of new-style and
\* legacy arguments.
NextAdapter ==
    \/ \E a \in AdapterValidateArgs, rec \in BOOLEAN : CallValidate(a, rec)
    \/ \E o \in MapperOutcomes, p \in Provided : ValidatePost(o, p)
    \/ Finish

SpecAdapter == InitAdapter /\ [][NextAdapter]_vars

\* The configuration specification: every construction path, then the
\* operations of the client that was built.
ConfigOutcomes ==
    {Response(200, [BlankBody EXCEPT !.fmt = "json_dict", !.required = TRUE,
                                     !.pipeline_status = "COMPLETE"]),
     Response(503, FullEnvelope)}

NextConfig ==
    \/ \E c \in InitCalls :
           \E e \in (IF ReadsEnv(c) THEN Envs ELSE {NoEnv.vars}) : New(c, e)
    \/ \E c \in ForMcpCalls : NewForMcp(c)
    \/ \E c \in ForEngineCalls : NewForEngine(c)
    \/ \E o \in {"get_run", "list_chunks"} : CallRead(o, "run-1")
    \/ \E o \in ConfigOutcomes, p \in Provided : ReadAttempt(o, p, 0)
    \/ \E a \in BasicValidateArgs : CallValidate(a, FALSE)
    \/ \E o \in ConfigOutcomes, p \in Provided : ValidatePost(o, p)
    \/ CallHealth
    \/ \E o \in ConfigOutcomes, p \in Provided : HealthProbe(o, p)
    \/ Finish

SpecConfig == InitConfig0 /\ [][NextConfig]_vars

\* The teardown specification: the client used inside and outside a with
\* block, closed explicitly any number of times; the caller starts no
\* operation on a client it has closed.
InitTeardown == InitWith(AdapterConfigs)

NextTeardown ==
    \/ Enter
    \/ Leave
    \/ CallClose
    \/ conn = "open" /\ \E o \in {"get_run", "list_chunks"} : CallRead(o, "run-1")
    \/ \E o \in ConfigOutcomes, p \in Provided : ReadAttempt(o, p, 0)
    \/ conn = "open" /\ CallHealth
    \/ \E o \in ConfigOutcomes, p \in Provided : HealthProbe(o, p)
    \/ Finish

SpecTeardown == InitTeardown /\ [][NextTeardown]_vars

\* The threads specification: two threads make read calls on one client,
\* their attempts interleaved in every order.
ThreadOutcomes ==
    {Response(200, [BlankBody EXCEPT !.fmt = "json_dict", !.required = TRUE,
                                     !.pipeline_status = "COMPLETE"]),
     Response(404, FullEnvelope),
     Response(503, FullEnvelope),
     TransportExc("TimeoutException")}

InitThreads == InitWith(AdapterConfigs)

NextThreads ==
    \/ \E t \in Threads, o \in {"get_run", "list_chunks"} : ThreadCall(t, o)
    \/ \E t \in Threads, o \in ThreadOutcomes, p \in Provided :
           ThreadAttempt(t, o, p)
    \/ \E t \in Threads : ThreadFinish(t)

SpecThreads == InitThreads /\ [][NextThreads]_vars

\* ------------------------------------------------------------------ claims
\* A transient failure as the specification words it: a timeout or
\* connection exception, or a response with status 429, 500, 502, 503, 504.
ClaimTransient(o) ==
    \/ o.kind = "exception" /\ o.exc \in {"TimeoutException", "NetworkError"}
    \/ o.kind = "response" /\ o.status_code \in {429, 500, 502, 503, 504}

ReadDone == pc = "done" /\ op \in {"get_run", "list_chunks"}

\* C1: a read call is still in progress after an HTTP attempt, and so makes
\* a further attempt, only if that attempt ended in a transient failure; the
\* requests of get_run / list_chunks are exactly its attempts.  So a first
\* attempt that ends otherwise leaves exactly one attempt.
C1_RetryOnlyAfterTransient ==
    /\ (pc = "get" /\ attempts >= 1) => ClaimTransient(last)
    /\ op \in {"get_run", "list_chunks"} => Len(reqs) = attempts

\* C1 witness: a get_run that was retried once after a transient failure and
\* then ended on its second attempt with a 404.
C1_Witness ==
    /\ ReadDone
    /\ attempts = 2
    /\ last.kind = "response"
    /\ last.status_code = 404

\* C2: one read call never makes more than 3 HTTP attempts, is over once the
\* 3rd is made, and a call whose attempts all ended in a transient failure
\* made exactly 3 and ended by raising.
C2_AtMostThreeAttempts ==
    op \in ReadOps =>
        /\ attempts <= 3
        /\ pc = "get" => attempts < 3
        /\ op # "wait_for_completion" => Len(reqs) <= 3
        /\ (pc = "done" /\ attempts >= 1 /\ ClaimTransient(last)) =>
               (attempts = 3 /\ result.kind = "raise")

\* C2 witness: a list_chunks that ended after three 503 answers.
C2_Witness ==
    /\ pc = "done"
    /\ op = "list_chunks"
    /\ attempts = 3
    /\ last.kind = "response"
    /\ last.status_code = 503

\* C3 (as claimed): when all 3 attempts of a read call ended in a transient
\* failure, the caller gets the 3rd attempt's own failure: the network
\* exception itself, or an error for the transient status, and never the
\* retry library's RetryError.
C3_LastFailureUnwrapped ==
    (ReadDone /\ attempts = 3 /\ ClaimTransient(last)) =>
        /\ result.kind = "raise"
        /\ result.type # "RetryError"
        /\ last.kind = "exception" => result.type = last.exc
        /\ last.kind = "response" => result.status_code = last.status_code

\* C4: validate sends at most one POST and is over as soon as it is sent; a
\* transient outcome of the POST is raised to the caller as it is.
C4_ValidateNeverRetried ==
    op = "validate" =>
        /\ Len(reqs) <= 1
        /\ Len(reqs) = attempts
        /\ pc = "post" => attempts = 0
        /\ (pc = "done" /\ attempts = 1 /\ ClaimTransient(last)) =>
               /\ result.kind = "raise"
               /\ last.kind = "exception" => result.type = last.exc
               /\ last.kind = "response" =>
                      /\ result.type = "DorcError"
                      /\ result.status_code = last.status_code

\* C4 witness: a validate whose single POST was answered 503 and raised.
C4_Witness ==
    /\ op = "validate"
    /\ pc = "done"
    /\ Len(reqs) = 1
    /\ last.kind = "response"
    /\ last.status_code = 503
    /\ result.kind = "raise"

\* C5 (as claimed): a validate, get_run or list_chunks whose final response
\* was non-2xx raises DorcAuthError for 401/403 and DorcError carrying the
\* status for every other status, 429/5xx after the last attempt included;
\* both are instances of the HTTP error type.
C5_NonSuccessRaisesHttpError ==
    (pc = "done" /\ op \in {"validate", "get_run", "list_chunks"}
        /\ last.kind = "response"
        /\ ~(200 <= last.status_code /\ last.status_code < 300)) =>
        /\ result.kind = "raise"
        /\ result.status_code = last.status_code
        /\ last.status_code \in {401, 403} => result.type = "DorcAuthError"
        /\ last.status_code \notin {401, 403} => result.type = "DorcError"
        /\ IsInstance(result.type, "DorcError")

HasEnvelope(b) == b.fmt = "json_dict" /\ b.err = "dict"

\* C6 (as claimed): the error raised for a non-2xx final response carries
\* the envelope's code, message and request_id where the envelope sets
\* them, HTTP_ERROR / a generic message / no request id where the envelope
\* or the field is absent, and the raw body in both cases.
C6_EnvelopeSurfaced ==
    (pc = "done" /\ op \in {"validate", "get_run", "list_chunks"}
        /\ last.kind = "response"
        /\ ~(200 <= last.status_code /\ last.status_code < 300)) =>
        LET b == last.body
            set(f) == HasEnvelope(b) /\ f \notin {Absent, ""}
            missing(f) == ~HasEnvelope(b) \/ f = Absent
        IN  /\ result.kind = "raise"
            /\ set(b.code) => result.code = b.code
            /\ set(b.message) => result.message = b.message
            /\ set(b.request_id) => result.request_id = b.request_id
            /\ missing(b.code) => result.code = "HTTP_ERROR"
            /\ missing(b.message) => result.message = "request failed"
            /\ missing(b.request_id) => result.request_id = NoneStr
            /\ result.response_text = b

IsProbe2xx(o) ==
    o.kind = "response" /\ 200 <= o.status_code /\ o.status_code < 300

C8_HealthNeedsNoAuth ==
    (op = "health" /\ config.mode = "mcp") =>
        /\ \A i \in 1..Len(reqs) : ~reqs[i].headers.authorization.some
        /\ pc = "done" => result.kind = "return"

\* C9 (as claimed): a wait_for_completion whose every poll was answered 200
\* with pipeline status RUNNING ends, once the deadline has passed, by
\* raising TimeoutError naming the run, and with no other error before.
C9_WaitTimesOut ==
    (op = "wait_for_completion" /\ pc = "done" /\ only_running /\ reqs # << >>) =>
        /\ result.kind = "raise"
        /\ result.type = "TimeoutError"
        /\ result.value = run_id
        /\ now >= deadline

PostedPayloads ==
    {reqs[i].payload : i \in {j \in 1..Len(reqs) : reqs[j].method = "POST"}}
    \cup (IF pc = "post" THEN {pending} ELSE {})

OneLegacyContent(a) ==
    /\ ~a.candidate_content.some
    /\ \/ Truthy(a.content) /\ ~a.candidate_text.some
       \/ ~a.content.some /\ Truthy(a.candidate_text)

\* The new-style call with otherwise equal arguments.
NewStyleCall(a) ==
    [a EXCEPT !.candidate_content = IF Truthy(a.content) THEN a.content
                                                        ELSE a.candidate_text,
              !.content = None, !.candidate_text = None]

ValidateStarted == op = "validate" /\ pc \in {"post", "done"}

\* The current call built, and sent if it sent anything, what the
\* new-style call builds, or failed locally as the new-style call fails.
SameAsNewStyle ==
    LET n == BuildPayload(config, NewStyleCall(args))
    IN  /\ pending = n.payload
        /\ \A i \in 1..Len(reqs) : reqs[i].payload = n.payload
        /\ n.error.kind = "raise" => pc = "done" /\ result = n.error
        /\ ~n.warned

HasPayload == ValidateStarted /\ pending # NoPayload

Cand == pending["candidate"]

\* Key k of the candidate is present exactly when o is not None, with o's
\* value.
CandHas(k, o) ==
    /\ (k \in DOMAIN Cand) = o.some
    /\ o.some => Cand[k] = o.val

\* C12: with candidate_content supplied, the payload's content is
\* candidate_content and content, candidate_text, candidate_title and
\* context are ignored; with only legacy arguments supplied, the content is
\* content, or candidate_text when content is absent or empty, the title is
\* candidate_title and the labels are context's string keys with
\* string-coerced values.
C12_ContentResolution ==
    HasPayload =>
        /\ args.candidate_content.some =>
               /\ Cand["content"] = args.candidate_content.val
               /\ CandHas("title", args.title)
               /\ CandHas("labels", args.metadata)
        /\ ( /\ ~args.candidate_content.some
             /\ ~args.title.some
             /\ ~args.metadata.some ) =>
               /\ Cand["content"] =
                      IF ~args.content.some \/ args.content.val = << >>
                      THEN args.candidate_text.val ELSE args.content.val
               /\ CandHas("title", args.candidate_title)
               /\ ("labels" \in DOMAIN Cand) = args.context.some
               /\ args.context.some =>
                      LET labels == Cand["labels"]
                          cx == args.context.val
                      IN  /\ DOMAIN labels = DOMAIN cx \cap {"s:tags", "s:k"}
                          /\ \A k \in DOMAIN labels :
                                 labels[k] = [t |-> "str", v |-> cx[k].v]

\* C12 witness: a call with an empty content, a candidate_text, a
\* candidate_title and a context posted candidate_text under the legacy
\* title with the context's string key as its only label.
C12_Witness ==
    /\ HasPayload /\ Len(reqs) = 1
    /\ ~args.candidate_content.some /\ ~args.title.some /\ ~args.metadata.some
    /\ args.content = Some(<< >>)
    /\ args.candidate_text = Some(<<"y">>)
    /\ args.candidate_title = Some(<<"L">>)
    /\ args.context.some
    /\ reqs[1].payload["candidate"]["content"] = <<"y">>
    /\ reqs[1].payload["candidate"]["title"] = <<"L">>
    /\ DOMAIN reqs[1].payload["candidate"]["labels"] = {"s:tags"}

\* The content a validate call resolves to, and whether it is missing, empty
\* or all whitespace.
ResolvedContent(a) ==
    IF a.candidate_content.some THEN a.candidate_content
    ELSE IF Truthy(a.content) THEN a.content ELSE a.candidate_text

ContentMissing(a) ==
    ~ResolvedContent(a).some \/ Strip(ResolvedContent(a).val) = << >>

\* The call ended with a local validation error and nothing was sent.
FailedLocally ==
    /\ pc = "done"
    /\ result.kind = "raise" /\ result.type = "ValueError"
    /\ reqs = << >> /\ attempts = 0 /\ last = NoOutcome

ViolatesSlugPattern(s) ==
    \/ \E i \in 1..Len(s) : s[i] \in {"A", " "}
    \/ Len(s) > TenantSlugMaxLen

\* The environment selects the token mode: DORC_MCP_URL is set and not blank.
EnvSelectsToken(e) ==
    RStripSlash(Strip(PyOr(e.DORC_MCP_URL, Some(<< >>)).val)) # << >>

\* The direct-mode base URL of the environment, DORC_BASE_URL first.
EnvDirectUrl(e) ==
    IF Truthy(e.DORC_BASE_URL) THEN e.DORC_BASE_URL ELSE e.DORC_ENGINE_URL

\* The tenant slug a direct-mode construction was given, if it was given one.
DirectTenantGiven ==
    IF ctor.via \in {"init", "for_engine"} /\ ctor.tenant_slug.some
    THEN ctor.tenant_slug
    ELSE IF env.read /\ ~EnvSelectsToken(env.vars)
            /\ Truthy(EnvDirectUrl(env.vars))
    THEN env.vars.DORC_TENANT_SLUG
    ELSE None

RefusedWith(type) ==
    pc = "failed" /\ result.kind = "raise" /\ result.type = type

\* C14: resolving or constructing a direct-mode configuration, from the
\* environment, through the engine factory or from constructor arguments,
\* with a tenant slug that has an uppercase letter or a space or is too long
\* fails with ConfigError.
C14_BadSlugRefused ==
    ( /\ pc # "new"
      /\ DirectTenantGiven.some
      /\ ViolatesSlugPattern(DirectTenantGiven.val) )
    => RefusedWith("DorcConfigError")

\* The token the environment names: DORC_JWT, else DORC_TOKEN.
EnvToken(e) == StripOrNone(IF Truthy(e.DORC_JWT) THEN e.DORC_JWT ELSE e.DORC_TOKEN)

\* C15: when DORC_MCP_URL is set and not blank, environment resolution
\* selects token mode with that URL and the token of DORC_JWT, else
\* DORC_TOKEN, whatever the direct-mode variables hold; direct mode is
\* selected only otherwise, with DORC_BASE_URL preferred over
\* DORC_ENGINE_URL.
C15_EnvironmentPrecedence ==
    env.read =>
        IF EnvSelectsToken(env.vars)
        THEN /\ pc # "failed"
             /\ config.mode = "mcp"
             /\ base_url = RStripSlash(Strip(env.vars.DORC_MCP_URL.val))
             /\ config.jwt_token = EnvToken(env.vars)
        ELSE pc # "failed" =>
                 /\ config.mode = "engine"
                 /\ base_url = RStripSlash(EnvDirectUrl(env.vars).val)

\* C16: with no token-mode URL, environment resolution fails with
\* ConfigError and yields no Configuration when no base URL variable is set
\* and when a base URL is set but DORC_TENANT_SLUG is missing or blank; with
\* base URL and tenant slug set it yields a direct-mode Configuration whose
\* api_key is absent unless DORC_API_KEY is set.
C16_EnvironmentErrors ==
    (env.read /\ ~EnvSelectsToken(env.vars)) =>
        LET e == env.vars
            tenant_blank == \/ ~e.DORC_TENANT_SLUG.some
                            \/ Strip(e.DORC_TENANT_SLUG.val) = << >>
        IN  /\ ~Truthy(EnvDirectUrl(e)) =>
                   RefusedWith("DorcConfigError") /\ config = NoConfig
            /\ (Truthy(EnvDirectUrl(e)) /\ tenant_blank) =>
                   RefusedWith("DorcConfigError") /\ config = NoConfig
            /\ (Truthy(EnvDirectUrl(e)) /\ ~tenant_blank) =>
                   /\ pc # "failed"
                   /\ config.mode = "engine"
                   /\ config.tenant_slug = Some(Strip(e.DORC_TENANT_SLUG.val))
                   /\ config.api_key.some => e.DORC_API_KEY.some
                   /\ e.DORC_API_KEY = Some(<<"k">>) =>
                          config.api_key = Some(<<"k">>)

\* C16 witness: DORC_BASE_URL is set, DORC_TENANT_SLUG is not, and the
\* resolution failed with ConfigError.
C16_Witness ==
    /\ env.read
    /\ ~env.vars.DORC_MCP_URL.some
    /\ Truthy(env.vars.DORC_BASE_URL)
    /\ ~env.vars.DORC_TENANT_SLUG.some
    /\ RefusedWith("DorcConfigError")

\* A token that is missing: None, empty or blank.
NoToken(o) == ~o.some \/ Strip(o.val) = << >>

\* The construction selected token mode with neither a token nor a provider.
TokenModeWithoutCredential ==
    /\ ~ctor.token_provider
    /\ \/ env.read /\ EnvSelectsToken(env.vars) /\ ~EnvToken(env.vars).some
       \/ ctor.via = "init" /\ ~env.read /\ ~ctor.tenant_slug.some
          /\ NoToken(ctor.jwt_token)
       \/ ctor.via = "for_mcp" /\ NoToken(ctor.jwt_token)

\* C17: token mode with no token and no provider is not an error when the
\* configuration is resolved or the client constructed; validate, get_run
\* and list_chunks then report the missing credential as an AuthError with
\* status 401 before any request is sent.
C17_MissingTokenIsLazy ==
    (pc # "new" /\ TokenModeWithoutCredential) =>
        /\ pc # "failed"
        /\ config.mode = "mcp"
        /\ ( /\ pc = "done"
             /\ op \in {"validate", "get_run", "list_chunks"}
             /\ result.type # "ValueError" ) =>
               /\ result.kind = "raise"
               /\ result.type = "DorcAuthError"
               /\ result.status_code = 401
               /\ reqs = << >>

\* C18: a client constructed with tenant_slug and/or api_key as explicit
\* arguments has a direct-mode configuration and never consulted the
\* environment.
C18_ExplicitDirectFields ==
    (ctor.via = "init" /\ (ctor.tenant_slug.some \/ ctor.api_key.some)) =>
        /\ pc # "failed"
        /\ config.mode = "engine"
        /\ ~env.read

\* The field sets of the two modes are not mixed in the client's Config.
FieldSetsApart ==
    (ctor.via \in {"init", "for_mcp", "for_engine"} /\ pc # "failed") =>
        /\ config.mode = "mcp" =>
               ~config.tenant_slug.some /\ ~config.api_key.some
        /\ config.mode = "engine" => ~config.jwt_token.some

\* C19: every Configuration produced by environment resolution, the two
\* factories or constructor arguments keeps the field sets apart (token mode
\* has no tenant_slug and no api_key, direct mode has no token), and the
\* configuration of a client never changes after construction.
C19_ConfigInvariant ==
    /\ []FieldSetsApart
    /\ [][pc # "new" => config' = config /\ base_url' = base_url]_vars

\* The latest attempt of an operation that requires auth sent its request.
AuthAttemptSent ==
    /\ config.mode = "mcp"
    /\ op \in {"validate", "get_run", "list_chunks", "wait_for_completion"}
    /\ last.kind \in {"response", "exception"}
    /\ Len(reqs) >= 1

\* The token C20 names for the latest attempt: the provider's result when a
\* provider was supplied and its result is not blank, else the configured
\* token.
ClaimedToken ==
    IF token_provider /\ provided_last.some /\ Strip(provided_last.val) # << >>
    THEN provided_last.val
    ELSE config.jwt_token.val

C21_ApiKeyHeader ==
    config.mode = "engine" =>
        \A i \in 1..Len(reqs) :
            /\ ~reqs[i].headers.authorization.some
            /\ reqs[i].headers.x_api_key =
                   IF config.api_key.some /\ config.api_key.val # << >>
                   THEN config.api_key ELSE None

\* C21 witness: a direct-mode client with key "k" sent the third attempt of
\* a get_run, each attempt under X-API-Key: k.
C21_Witness ==
    /\ config.mode = "engine" /\ config.api_key = Some(<<"k">>)
    /\ op = "get_run" /\ Len(reqs) = 3
    /\ \A i \in 1..3 : reqs[i].headers.x_api_key = Some(<<"k">>)


MalformedAnswer(o) ==
    /\ o.kind = "response"
    /\ Is2xx(o.status_code)
    /\ \/ o.body.fmt # "json_dict"
       \/ ~o.body.required
       \/ op # "list_chunks" /\ o.body.pipeline_status = Absent

DecodeErrors == {"JSONDecodeError", "ValidationError"}

\* C23 as stated: a get_run / list_chunks call that received a malformed
\* 2xx response made exactly one HTTP attempt and raised a decode error.
C23_Original ==
    (ReadDone /\ MalformedAnswer(last)) =>
        /\ attempts = 1
        /\ result.kind = "raise"
        /\ result.type \in DecodeErrors

\* C23 (amended): a malformed 2xx response is the last attempt of its call:
\* the call ends at once with a decode error, no attempt and no sleep
\* follows, and nothing is returned; the attempts before it were each a
\* transient failure followed by its backoff, so the call made exactly one
\* attempt when the malformed response answered the first.
C23_DecodeFatal ==
    /\ []((ReadDone /\ MalformedAnswer(last)) =>
              /\ result.kind = "raise"
              /\ result.type \in DecodeErrors
              /\ Len(reqs) = attempts
              /\ Len(slept) = attempts - 1)
    /\ [][(/\ pc = "get"
           /\ op \in {"get_run", "list_chunks"}
           /\ attempts' = attempts + 1
           /\ MalformedAnswer(last')) =>
              /\ pc' = "done"
              /\ slept' = slept
              /\ result'.kind = "raise"]_vars

C23_Witness ==
    /\ ReadDone
    /\ MalformedAnswer(last)
    /\ attempts = 2
    /\ slept = <<500>>
    /\ result.type = "ValidationError"


\* C24: the backoff of a retried get_run / list_chunks.  The i-th sleep of
\* the call lasts min(4 s, 0.5 s * 2^(i-1)): 0.5 s after the first attempt,
\* 1 s after the second.  While the call goes on every attempt made so far
\* failed transiently and was followed by one sleep; once it is over the
\* last attempt was followed by none, whatever its outcome (an attempt that
\* failed before its request was sent counts as the last and is no request),
\* and no sleep precedes the first attempt.
C24_Backoff ==
    op \in {"get_run", "list_chunks"} =>
        /\ \A i \in 1..Len(slept) :
               slept[i] = (IF 500 * (2 ^ (i - 1)) < 4000
                           THEN 500 * (2 ^ (i - 1)) ELSE 4000)
        /\ (pc = "get") =>
               (Len(slept) = attempts /\ (attempts > 0 => ClaimTransient(last)))
        /\ (pc = "done") =>
               (/\ Len(reqs) = attempts
                /\ Len(slept) = IF last.kind = "unsent"
                                THEN attempts ELSE attempts - 1)

C24_Witness ==
    /\ ReadDone
    /\ attempts = 3
    /\ slept = <<500, 1000>>
    /\ ClaimTransient(last)


Waiting == op = "wait_for_completion" /\ pc = "get"

\* A poll answered with a run state the client can read whose status is not
\* RUNNING.
TerminalAnswer(o) ==
    /\ o.kind = "response"
    /\ o.status_code = 200
    /\ o.body.fmt = "json_dict"
    /\ o.body.required
    /\ o.body.pipeline_status \in {"COMPLETE", "ERROR"}

\* C26: wait_for_completion stops at the first terminal poll outcome.  The
\* request answered by a run state that is not RUNNING ends the wait with
\* that run state; a get_run that fails ends it with get_run's own
\* exception (for an error status, the exception of that status); and in
\* both cases nothing is slept and, once the wait is over, nothing more is
\* sent.
C26_WaitStops ==
    /\ [][(Waiting /\ Len(reqs') = Len(reqs) + 1 /\ TerminalAnswer(last')) =>
              /\ pc' = "done"
              /\ result' = Return("RunStateResponse",
                                  last'.body.pipeline_status, FALSE)
              /\ slept' = slept]_vars
    /\ [][(Waiting /\ pc' = "done" /\ result'.kind = "raise"
             /\ result'.type # "TimeoutError") =>
              /\ slept' = slept
              /\ Len(reqs') <= Len(reqs) + 1
              /\ (last'.kind = "response" /\ ~Is2xx(last'.status_code)
                  /\ ~ClaimTransient(last')) => result' = StatusError(last')
              /\ last'.kind = "exception" => result'.type = last'.exc]_vars
    /\ [][(op = "wait_for_completion" /\ pc = "done") =>
              /\ reqs' = << >>
              /\ slept' = << >>
              /\ pc' = "idle"]_vars

C26_Witness ==
    /\ op = "wait_for_completion" /\ pc = "done"
    /\ result = Return("RunStateResponse", "ERROR", FALSE)
    /\ Len(reqs) = 2
    /\ slept = <<500>>


WaitDone == op = "wait_for_completion" /\ pc = "done"

SettledBy(call, o) ==
    /\ o.kind = "unsent" => call.result = MissingTokenError
    /\ (o.kind = "response" /\ Is2xx(o.status_code)) =>
           call.result = Decode(ReadSchema(call.op), "run-1", o.body)
    /\ (o.kind = "response" /\ ~Is2xx(o.status_code) /\ ~ClaimTransient(o)) =>
           call.result = StatusError(o)
    /\ ClaimTransient(o) =>
           (call.result.kind = "raise" /\ Len(call.seen) = StopAfterAttempt)

\* C27: retry state is per call.  Whatever the other thread does, a call
\* makes at most 3 attempts, goes on exactly while its own attempts fail
\* transiently and it has made fewer than 3, and ends with the result its
\* own last attempt settles; a call that follows another starts afresh;
\* a step of one call changes neither the other call nor the client.
C27_PerCallRetry ==
    /\ [](\A t \in Threads :
              LET call == threads[t]
                  n == Len(call.seen)
              IN  /\ n = call.attempts
                  /\ n <= StopAfterAttempt
                  /\ call.pc = "idle" => call = NoCall
                  /\ call.pc = "get" =>
                         /\ n < StopAfterAttempt
                         /\ \A i \in 1..n : ClaimTransient(call.seen[i])
                  /\ call.pc = "done" =>
                         /\ n >= 1
                         /\ \A i \in 1..(n - 1) : ClaimTransient(call.seen[i])
                         /\ SettledBy(call, call.seen[n]))
    /\ [][/\ UNCHANGED client
          /\ \A t, u \in Threads :
                 (t # u /\ threads'[t] # threads[t]) => threads'[u] = threads[u]]_vars

C27_Witness ==
    /\ threads[1].pc = "done" /\ Len(threads[1].seen) = 3
    /\ threads[1].result.kind = "raise"
    /\ threads[2].pc = "done" /\ Len(threads[2].seen) = 3
    /\ threads[2].result.kind = "return"

====
